---- MODULE Spec2Model ----
(***************************************************************************)
(* Model of src/mc/plugin.rs: the Action lattice, the Plugin trait with    *)
(* its default hooks, PluginManager::new / PluginManager::run, and the two *)
(* plugins of the file (Report, Save).  PluginManager::run is followed     *)
(* statement by statement: pc/idx give the position inside run, and every  *)
(* hook call appends one event to trace.                                   *)
(***************************************************************************)
EXTENDS Integers, Naturals, Sequences, FiniteSets, TLC

\* ---- bounds of the model ----
MaxMoves == 6      \* the host stops calling run after this many moves
MaxPlugins == 2    \* length of the plugin slice handed to run
MaxPeriod == 5     \* largest Some(n) a user plugin's run_period reports
MaxIter == 3       \* largest max_iter of a Report

\* ---- enum Action, in declaration order (derive(PartialOrd, Ord)) ----
ActionNone == 0
ActionLog == 1
ActionSave == 2
ActionExit == 3
Actions == {ActionNone, ActionLog, ActionSave, ActionExit}

\* Option<u64>::None of run_period / max_iter
NoPeriod == -1
\* u64 arithmetic wraps modulo U64 when overflow checks are off.  TLC's
\* integers have 32 bits, so the two large constants of the code are scaled
\* down together, keeping  every count of the model < SafetyNet < U64:
\* U64 stands for 2^64 and SafetyNet for 1u64 << 40.
U64 == 2^30
\* "run plugins every trillion iterations minimum"
SafetyNet == 2^20

\* Action::and, preceded by a faulty variant that keeps the right operand
And_keepOther(a, b) == b
And(a, b) == IF a >= b THEN a ELSE b

\* the tests of PluginManager::run, each preceded by faulty variants
\* (a wrong comparison) against which the properties below are tried
Due_strict(m, p) == m > p
Due_early(m, p) == m + 1 >= p
Due_late(m, p) == m >= p + 1
Due(m, p) == m >= p
WantsLog_always(t) == TRUE
WantsLog_onlyLog(t) == t = ActionLog
WantsLog(t) == t >= ActionLog
WantsSave_onlySave(t) == t = ActionSave
WantsSave_fromLog(t) == t >= ActionLog
WantsSave(t) == t >= ActionSave
WantsExit_never(t) == FALSE
WantsExit(t) == t >= ActionExit

\* one step of the new_period loop: the Some(period) < new_period test
MinPeriod(np, rp) == IF rp # NoPeriod /\ rp < np THEN rp ELSE np

\* ---- plugins ----
\* One record shape for every implementor of Plugin; the fields a kind
\* does not have stay at their initial value.
\*   "Default": a plugin that keeps all four default methods of the trait
\*   "User":    any other implementor: run returns any Action, and
\*              run_period any Option<u64> ("this period may change any
\*              time the plugin is called"); rp is the value last reported
\*   "Report":  max_iter, start (TRUE when start is Some)
\*   "Save":    next_output, moves_left
Plugin(k, mi, st, no, ml, rp) ==
  [kind |-> k, max_iter |-> mi, start |-> st, next_output |-> no,
   moves_left |-> ml, rp |-> rp]

DefaultPlugin == Plugin("Default", NoPeriod, FALSE, 0, 0, NoPeriod)
UserPlugin == Plugin("User", NoPeriod, FALSE, 0, 0, NoPeriod)
\* From<ReportParams> sets start to Some; a deserialized Report has None
ReportPlugins ==
  { Plugin("Report", mi, st, 0, 0, NoPeriod) :
      mi \in {NoPeriod} \cup (0..MaxIter), st \in BOOLEAN }
\* From<SaveParams>
SavePlugin == Plugin("Save", NoPeriod, FALSE, 1, 1, NoPeriod)

InitialPlugins == {DefaultPlugin, UserPlugin, SavePlugin} \cup ReportPlugins
UserPeriods == {NoPeriod} \cup (0..MaxPeriod)

\* the plugin lists of the model: up to n plugins, one of each kind at most
PluginLists(S, n) ==
  { l \in UNION { [1..k -> S] : k \in 0..n } :
      \A i, j \in 1..Len(l) : i # j => l[i].kind # l[j].kind }

\* Plugin::run_period of each kind, as last reported
run_period(p) ==
  CASE p.kind = "Default" -> NoPeriod
    [] p.kind = "User" -> p.rp
    [] p.kind = "Report" -> p.max_iter
    [] p.kind = "Save" -> p.next_output

\* what a call of run_period can return now
Reports(p) == IF p.kind = "User" THEN UserPeriods ELSE {run_period(p)}

\* Report::run
Report_run(p, nm) ==
  IF p.max_iter # NoPeriod /\ nm >= p.max_iter THEN ActionExit ELSE ActionNone

\* Save::run: the action returned, the plugin afterwards, and whether a
\* u64 operation overflowed (a panic when overflow checks are compiled in)
Save_action(p, nm) == IF nm >= p.next_output THEN ActionSave ELSE ActionNone
Save_after(p, nm) ==
  [p EXCEPT !.next_output = IF nm >= p.next_output
                              THEN (p.next_output * 2) % U64
                              ELSE p.next_output,
            !.moves_left = (p.next_output - nm) % U64]
Save_overflows(p, nm) ==
  \/ nm >= p.next_output /\ p.next_output * 2 >= U64
  \/ p.next_output < nm

\* Report::log: max - moves is computed only when start is Some and
\* max_iter is Some
Report_log_overflows(p, nm) ==
  p.start /\ p.max_iter # NoPeriod /\ p.max_iter < nm
Report_log_after(p) == [p EXCEPT !.start = TRUE]

VARIABLES
  plugins,      \* the slice handed to every run call, with each plugin's cells
  period,       \* PluginManager.period
  moves,        \* PluginManager.moves
  num_moves,    \* mc.num_moves() of the host simulation
  overflow_checks, \* whether the build panics on integer overflow
  pc,           \* position: "idle" (outside run), a statement of run,
                \* "exited" (process::exit) or "panicked"
  idx,          \* index of the plugin the current loop of run is at
  todo,         \* local todo of run
  new_period,   \* local new_period of run
  trace,        \* hook calls made by the current (last) run call, in order
  consulted,    \* whether the current (last) run call took the consulting branch
  calls,        \* run calls since the manager last stored a period
  resumed       \* the manager restored from the last checkpoint, run in step

vars == <<plugins, period, moves, num_moves, overflow_checks, pc, idx, todo,
          new_period, trace, consulted, calls, resumed>>

N == Len(plugins)

Event(h, i, a) == [hook |-> h, p |-> i, a |-> a]

\* ---- the statement sequence of the consulting branch ----
At(l, i) == [pc |-> l, idx |-> i]
PosPeriod == IF N > 0 THEN At("run_period", 1) ELSE At("set_period", 0)
PosExit(t) == IF WantsExit(t) THEN At("exit", 0) ELSE PosPeriod
PosSave(t) == IF N > 0 THEN At("save", 1) ELSE PosExit(t)
\* (faulty variant: on-save without the checkpoint)
PosCheckpoint_skipped(t) == IF WantsSave(t) THEN PosSave(t) ELSE PosExit(t)
PosCheckpoint(t) == IF WantsSave(t) THEN At("checkpoint", 0) ELSE PosExit(t)
PosLog(t) == IF WantsLog(t) /\ N > 0 THEN At("log", 1) ELSE PosCheckpoint(t)
PosDecide == IF N > 0 THEN At("decide", 1) ELSE PosLog(ActionNone)

\* resumed: the PluginManager deserialized from the last checkpoint.  It is
\* stepped by the same run calls as long as it has taken the same branch
\* of run as the manager that was never interrupted (agrees); the plugins
\* and the simulation it sees are then the same as between the two runs.
NotResumed == [active |-> FALSE, period |-> 0, moves |-> 0, agrees |-> TRUE]

\* PluginManager::new, and a freshly built plugin list
Init ==
  /\ plugins \in PluginLists(InitialPlugins, MaxPlugins)
  /\ period = 1
  /\ moves = 0
  /\ num_moves = 0
  /\ overflow_checks \in BOOLEAN
  /\ pc = "idle"
  /\ idx = 0
  /\ todo = ActionNone
  /\ new_period = SafetyNet
  /\ trace = <<>>
  /\ consulted = FALSE
  /\ calls = 0
  /\ resumed = NotResumed

\* The host makes one move (num_moves counts it before the plugins see
\* it) and calls run: the counter update and the period test.  The
\* manager restored from the last checkpoint makes the same call on its
\* own counters.
Run ==
  /\ pc = "idle"
  /\ num_moves < MaxMoves
  /\ num_moves' = num_moves + 1
  /\ calls' = calls + 1
  /\ trace' = <<>>
  /\ LET m == moves + 1 IN
       IF Due(m, period)
         THEN /\ moves' = 0
              /\ todo' = ActionNone
              /\ consulted' = TRUE
              /\ pc' = PosDecide.pc
              /\ idx' = PosDecide.idx
         ELSE /\ moves' = m
              /\ consulted' = FALSE
              /\ UNCHANGED <<todo, pc, idx>>
  /\ resumed' =
       IF resumed.active /\ resumed.agrees
         THEN LET rm == resumed.moves + 1 IN
                [resumed EXCEPT
                   !.moves = IF Due(rm, resumed.period) THEN 0 ELSE rm,
                   !.agrees = (Due(rm, resumed.period) <=> Due(moves + 1, period))]
         ELSE resumed
  /\ UNCHANGED <<plugins, period, overflow_checks, new_period>>

\* position after the hook of plugin idx in the loop at label l
NextIn(l, after) == IF idx < N THEN At(l, idx + 1) ELSE after

\* todo = todo.and(p.run(mc, sys)) for plugin idx
DecideStep(a, p2, panics) ==
  /\ trace' = Append(trace, Event("decide", idx, a))
  /\ plugins' = [plugins EXCEPT ![idx] = p2]
  /\ IF panics
       THEN /\ pc' = "panicked"
            /\ UNCHANGED <<todo, idx>>
       ELSE LET t == And(todo, a)
                nx == NextIn("decide", PosLog(t)) IN
              /\ todo' = t
              /\ pc' = nx.pc
              /\ idx' = nx.idx
  /\ UNCHANGED <<period, moves, num_moves, overflow_checks, new_period,
                 consulted, calls, resumed>>

DecideDefault ==
  /\ pc = "decide"
  /\ plugins[idx].kind = "Default"
  /\ DecideStep(ActionNone, plugins[idx], FALSE)

DecideUser ==
  /\ pc = "decide"
  /\ plugins[idx].kind = "User"
  /\ \E a \in Actions : DecideStep(a, plugins[idx], FALSE)

DecideReport ==
  /\ pc = "decide"
  /\ plugins[idx].kind = "Report"
  /\ DecideStep(Report_run(plugins[idx], num_moves), plugins[idx], FALSE)

DecideSave ==
  /\ pc = "decide"
  /\ plugins[idx].kind = "Save"
  /\ LET p == plugins[idx] IN
       DecideStep(Save_action(p, num_moves), Save_after(p, num_moves),
                  overflow_checks /\ Save_overflows(p, num_moves))

\* p.log(mc, sys) for plugin idx
Log ==
  /\ pc = "log"
  /\ trace' = Append(trace, Event("log", idx, 0))
  /\ LET p == plugins[idx]
         panics == /\ p.kind = "Report"
                   /\ overflow_checks
                   /\ Report_log_overflows(p, num_moves)
         nx == NextIn("log", PosCheckpoint(todo)) IN
       /\ plugins' = IF p.kind = "Report"
                       THEN [plugins EXCEPT ![idx] = Report_log_after(p)]
                       ELSE plugins
       /\ IF panics
            THEN pc' = "panicked" /\ UNCHANGED idx
            ELSE pc' = nx.pc /\ idx' = nx.idx
  /\ UNCHANGED <<period, moves, num_moves, overflow_checks, todo, new_period,
                 consulted, calls, resumed>>

\* mc.checkpoint(): the manager is persisted as it is now, and a run
\* resumed from that state starts from these counters
Checkpoint ==
  /\ pc = "checkpoint"
  /\ trace' = Append(trace, Event("checkpoint", 0, 0))
  /\ resumed' = [active |-> TRUE, period |-> period, moves |-> moves,
                 agrees |-> TRUE]
  /\ pc' = PosSave(todo).pc
  /\ idx' = PosSave(todo).idx
  /\ UNCHANGED <<plugins, period, moves, num_moves, overflow_checks, todo,
                 new_period, consulted, calls>>

\* p.save(mc, sys) for plugin idx
SaveHook ==
  /\ pc = "save"
  /\ trace' = Append(trace, Event("save", idx, 0))
  /\ LET nx == NextIn("save", PosExit(todo)) IN
       pc' = nx.pc /\ idx' = nx.idx
  /\ UNCHANGED <<plugins, period, moves, num_moves, overflow_checks, todo,
                 new_period, consulted, calls, resumed>>

\* ::std::process::exit(0)
Exit ==
  /\ pc = "exit"
  /\ trace' = Append(trace, Event("exit", 0, 0))
  /\ pc' = "exited"
  /\ UNCHANGED <<plugins, period, moves, num_moves, overflow_checks, idx, todo,
                 new_period, consulted, calls, resumed>>

\* the new_period loop, for plugin idx
RunPeriod ==
  /\ pc = "run_period"
  /\ trace' = Append(trace, Event("run_period", idx, 0))
  /\ \E q \in Reports(plugins[idx]) :
       /\ new_period' = MinPeriod(IF idx = 1 THEN SafetyNet ELSE new_period, q)
       /\ plugins' = IF plugins[idx].kind = "User"
                       THEN [plugins EXCEPT ![idx].rp = q]
                       ELSE plugins
  /\ LET nx == NextIn("run_period", At("set_period", 0)) IN
       pc' = nx.pc /\ idx' = nx.idx
  /\ UNCHANGED <<period, moves, num_moves, overflow_checks, todo,
                 consulted, calls, resumed>>

\* self.period.set(new_period), and the return to the host
SetPeriod ==
  /\ pc = "set_period"
  /\ LET np == IF N = 0 THEN SafetyNet ELSE new_period IN
       /\ period' = np
       /\ new_period' = np
       /\ resumed' = IF /\ resumed.active
                          /\ resumed.agrees
                          /\ \A i \in 1..Len(trace) : trace[i].hook # "checkpoint"
                       THEN [resumed EXCEPT !.period = np]
                       ELSE resumed
  /\ calls' = 0
  /\ pc' = "idle"
  /\ idx' = 0
  /\ UNCHANGED <<plugins, moves, num_moves, overflow_checks, todo, trace,
                 consulted>>

Next ==
  \/ Run
  \/ DecideDefault
  \/ DecideUser
  \/ DecideReport
  \/ DecideSave
  \/ Log
  \/ Checkpoint
  \/ SaveHook
  \/ Exit
  \/ RunPeriod
  \/ SetPeriod

Spec == Init /\ [][Next]_vars

\* The program is one thread that keeps executing: a run call in progress
\* goes on to its next statement, and the host loop calls run after every
\* move (up to MaxMoves moves).
FairSpec == Spec /\ WF_vars(Next)

TypeOK ==
  /\ period \in Nat
  /\ moves \in Nat
  /\ todo \in Actions
  /\ pc \in {"idle", "decide", "log", "checkpoint", "save", "exit",
             "run_period", "set_period", "exited", "panicked"}
\* ---- reading the trace of the current run call ----
Calls(h) == { i \in 1..Len(trace) : trace[i].hook = h }
Count(h, p) == Cardinality({ i \in Calls(h) : trace[i].p = p })
DecideResults == { trace[i].a : i \in Calls("decide") }
MaxOf(S) == IF S = {} THEN ActionNone
            ELSE CHOOSE x \in S : \A y \in S : x >= y
Aggregate == MaxOf(DecideResults)

\* the decide loop of a consultation is over / the save block is over
PastDecide ==
  consulted /\ pc \in {"log", "checkpoint", "save", "exit", "run_period",
                       "set_period", "exited", "idle"}
PastSave ==
  consulted /\ pc \in {"exit", "run_period", "set_period", "exited", "idle"}

IsPrefix(s, t) ==
  Len(s) <= Len(t) /\ \A i \in 1..Len(s) : s[i] = t[i]

NotifyHooks == {"decide", "log", "checkpoint", "save"}
IsNotify(e) == e.hook \in NotifyHooks
HookSeq ==
  LET sel == SelectSeq(trace, IsNotify) IN
    [i \in 1..Len(sel) |-> <<sel[i].hook, sel[i].p>>]
Each(h) == [i \in 1..N |-> <<h, i>>]
Expected(t) ==
  Each("decide")
    \o (IF t >= ActionLog THEN Each("log") ELSE <<>>)
    \o (IF t >= ActionSave THEN <<(<<"checkpoint", 0>>)>> \o Each("save")
        ELSE <<>>)

\* C1: in a consultation the hooks fire in the order decide on all plugins,
\* on-log on all plugins (aggregate >= Log), checkpoint, on-save on all
\* plugins (aggregate >= Save), each group in list order; no on-save comes
\* before the checkpoint.
C1_HookOrder ==
  consulted =>
    /\ \E t \in Actions : IsPrefix(HookSeq, Expected(t))
    /\ PastDecide => IsPrefix(HookSeq, Expected(Aggregate))
    /\ PastSave => HookSeq = Expected(Aggregate)
    /\ \A i \in Calls("save") : \E j \in Calls("checkpoint") : j < i

C1_Witness ==
  /\ PastSave
  /\ N = 2
  /\ HookSeq = << <<"decide", 1>>, <<"decide", 2>>, <<"log", 1>>, <<"log", 2>>,
                  <<"checkpoint", 0>>, <<"save", 1>>, <<"save", 2>> >>
  /\ trace[1].a = ActionLog
  /\ trace[2].a = ActionSave
  /\ todo = ActionSave

C3_PeriodSkips ==
  /\ (pc = "idle" /\ ~consulted /\ period >= 1) =>
       calls < period /\ trace = <<>>
  /\ (consulted /\ pc # "idle" /\ period >= 1) => calls = period
  /\ PastDecide => \A p \in 1..N : Count("decide", p) = 1
  /\ PastSave =>
       \A p \in 1..N :
         /\ Count("log", p) = IF Aggregate >= ActionLog THEN 1 ELSE 0
         /\ Count("save", p) = IF Aggregate >= ActionSave THEN 1 ELSE 0
  /\ PastSave =>
       Cardinality(Calls("checkpoint")) = IF Aggregate >= ActionSave THEN 1 ELSE 0
  /\ (consulted /\ pc = "idle") => \A p \in 1..N : Count("run_period", p) = 1

C3_Witness ==
  /\ consulted
  /\ pc = "set_period"
  /\ period = 3
  /\ calls = 3
  /\ N = 2
  /\ trace[1].a = ActionExit \/ trace[1].a = ActionSave

\* the tightest period the plugins request now, absent as the safety net
Requested ==
  { IF run_period(plugins[i]) = NoPeriod THEN SafetyNet
    ELSE run_period(plugins[i]) : i \in 1..N } \cup {SafetyNet}
Tightest == CHOOSE x \in Requested : \A y \in Requested : x <= y

\* C4: after a consultation that returns, period is the minimum of the
\* plugins' preferred periods (absent = safety net), clamped to at least 1.
C4_PeriodIsClampedMin ==
  (consulted /\ pc = "idle") =>
     period = (IF Tightest < 1 THEN 1 ELSE Tightest)

\* C5: the stored period is at least 1 in every reachable state.
C5_PeriodPositive == period >= 1

\* C6: when every decide of a consultation returned None, that run call
\* calls no on-log, no on-save and requests no checkpoint.
C6_NoneIsQuiet ==
  (PastDecide /\ DecideResults \subseteq {ActionNone}) =>
     /\ Calls("log") = {}
     /\ Calls("save") = {}
     /\ Calls("checkpoint") = {}

C6_Witness ==
  /\ consulted
  /\ pc = "idle"
  /\ N = 2
  /\ trace[1].a = ActionNone
  /\ trace[2].a = ActionNone
  /\ Count("run_period", 2) = 1

\* the decide results of the consultation folded with Action::and in the
\* order given by a permutation of the plugin list
RECURSIVE FoldAnd(_, _, _)
FoldAnd(f, perm, k) ==
  IF k = 0 THEN ActionNone ELSE And(FoldAnd(f, perm, k - 1), f[perm[k]])
DecideSeq == [i \in 1..N |-> trace[i].a]

\* C7: Action::and is the maximum under None < Log < Save < Exit
\* (commutative, associative, idempotent, None the identity; stated for
\* the running todo against every action), and the aggregate of a
\* consultation is the maximum decide result whatever the order of the
\* plugin list, None for the empty list.
C7_MergeIsMax ==
  /\ And(todo, todo) = todo
  /\ And(ActionNone, todo) = todo
  /\ And(todo, ActionNone) = todo
  /\ \A a \in Actions :
       /\ And(todo, a) = MaxOf({todo, a})
       /\ And(todo, a) = And(a, todo)
       /\ \A b \in Actions : And(And(todo, a), b) = And(todo, And(a, b))
  /\ PastDecide =>
       /\ todo = Aggregate
       /\ \A perm \in Permutations(1..N) : FoldAnd(DecideSeq, perm, N) = todo

C7_Witness ==
  /\ PastDecide
  /\ N = 2
  /\ trace[1].a = ActionSave
  /\ trace[2].a = ActionLog
  /\ todo = ActionSave

\* C8: on-log runs on every plugin exactly when the aggregate is Log, Save
\* or Exit; the checkpoint and on-save on every plugin exactly when it is
\* Save or Exit; an aggregate of Log gives on-log only.
C8_HooksByAggregate ==
  PastSave =>
    /\ \A p \in 1..N :
         /\ Count("log", p) > 0 <=> todo \in {ActionLog, ActionSave, ActionExit}
         /\ Count("save", p) > 0 <=> todo \in {ActionSave, ActionExit}
    /\ Calls("checkpoint") # {} <=> todo \in {ActionSave, ActionExit}
    /\ todo = ActionLog => Calls("checkpoint") = {} /\ Calls("save") = {}

C8_Witness ==
  /\ PastSave
  /\ N = 2
  /\ todo = ActionLog
  /\ Count("log", 1) = 1
  /\ Count("log", 2) = 1
  /\ Calls("checkpoint") = {}

\* the scenario of C9: one plugin that prefers period 5, a manager that took
\* that period, and a consultation whose aggregate is Save
C9_Case ==
  /\ N = 1
  /\ run_period(plugins[1]) = 5
  /\ period = 5
  /\ PastSave
  /\ pc # "idle"
  /\ Aggregate = ActionSave

\* C9 as stated: the plugin is consulted only at step 5, the checkpoint and
\* on-save fire, and on-log does not fire.
C9_SaveWithoutLog ==
  C9_Case =>
    /\ calls = 5
    /\ Calls("checkpoint") # {}
    /\ Count("save", 1) = 1
    /\ Calls("log") = {}

\* C9 amended: the plugin is consulted only at step 5, on-log fires, then
\* the checkpoint, then on-save.
C9_SaveAtStepFive ==
  C9_Case =>
    /\ calls = 5
    /\ HookSeq = << <<"decide", 1>>, <<"log", 1>>, <<"checkpoint", 0>>,
                    <<"save", 1>> >>

C9_Witness ==
  /\ C9_Case
  /\ pc = "set_period"
  /\ num_moves = 6

\* C10: the manager resumed from the state persisted by the checkpoint takes
\* the consulting branch on the same run calls as the uninterrupted one.
C10_ResumeAgrees == resumed.active => resumed.agrees
\* a run call has taken the consulting branch and no hook has run yet, so
\* the plugins are as the previous consultation left them
JustConsulted == consulted /\ pc # "idle" /\ trace = <<>>
\* a consultation has completed before the current interval of run calls
HadConsultation == num_moves > calls

\* C11 as stated: between two consecutive consultations there are at least 1
\* and at most Tightest run calls, Tightest being the smallest period a
\* plugin reported at the end of the earlier consultation (safety net if
\* none reported one).
C11_WithinTightest ==
  (JustConsulted /\ HadConsultation) => calls >= 1 /\ calls <= Tightest

\* C11 amended: the number of run calls between two consecutive
\* consultations is at least 1 and at most the larger of 1 and Tightest,
\* and before that many calls no consultation is overdue.
C11_WithinTightestOrOne ==
  /\ (JustConsulted /\ HadConsultation) =>
       /\ calls >= 1
       /\ calls <= (IF Tightest < 1 THEN 1 ELSE Tightest)
       /\ calls = (IF Tightest < 1 THEN 1 ELSE Tightest)
  /\ (pc = "idle" /\ ~consulted /\ HadConsultation) =>
       calls >= 1 /\ calls < Tightest

C11_Witness ==
  /\ JustConsulted
  /\ HadConsultation
  /\ N = 2
  /\ Tightest = 2
  /\ calls = 2
\* C12: an aggregate of Exit is a hard stop: the consultation goes from the
\* save block to process::exit, and after it no step is taken at all: no
\* run_period, decide, on-log or on-save call, no new period, no run call.
C12_HardStop ==
  [][ /\ pc # "exited"
      /\ (PastSave /\ Aggregate = ActionExit) =>
           /\ pc = "exit"
           /\ pc' = "exited"
           /\ period' = period
           /\ moves' = moves
           /\ num_moves' = num_moves
           /\ plugins' = plugins
           /\ \A i \in 1..Len(trace') : trace'[i].hook # "run_period" ]_vars

C12_Witness ==
  /\ pc = "exited"
  /\ N = 2
  /\ Aggregate = ActionExit
  /\ Calls("run_period") = {}
  /\ num_moves < MaxMoves
IsLimitedReport(p) == p.kind = "Report" /\ p.max_iter # NoPeriod
ReturnedBy(i, a) == \E j \in Calls("decide") : trace[j].p = i /\ trace[j].a = a

\* C13: the period a Report with a limit reports is the remaining distance
\* limit - num_moves, and the Report asks for Exit on the step where
\* num_moves reaches the limit, never later.
C13_ReportPeriodIsRemaining ==
  \A i \in 1..N :
    IsLimitedReport(plugins[i]) =>
      /\ Count("run_period", i) > 0 =>
           run_period(plugins[i]) = plugins[i].max_iter - num_moves
      /\ (ReturnedBy(i, ActionExit) /\ plugins[i].max_iter >= 1) =>
           num_moves = plugins[i].max_iter

\* C14: the period a Save reports is the distance from num_moves to its next
\* threshold, and after the first consultation the manager consults it on
\* the step where num_moves reaches the threshold.
C14_SavePeriodIsDistance ==
  \A i \in 1..N :
    plugins[i].kind = "Save" =>
      /\ Count("run_period", i) > 0 =>
           run_period(plugins[i]) = plugins[i].next_output - num_moves
      /\ (N = 1 /\ JustConsulted /\ HadConsultation) =>
           num_moves = plugins[i].next_output

PowersOfTwo == { 2^k : k \in 0..(MaxMoves + 1) }

\* C15: every call of Save::run returns, Save exactly when num_moves >=
\* next_output, and then it has doubled next_output; otherwise it returns
\* None and leaves it; no other step changes it, so next_output starts at
\* 1, is always a power of two and never decreases.
C15_ThresholdDoubles ==
  /\ [](\A i \in 1..N : plugins[i].kind = "Save" =>
          plugins[i].next_output \in PowersOfTwo)
  /\ [][\A i \in 1..N : plugins[i].kind = "Save" =>
          LET old == plugins[i].next_output
              new == plugins'[i].next_output
              ret == trace'[Len(trace')].a IN
            /\ new >= old
            /\ (pc = "decide" /\ idx = i) =>
                 /\ pc' # "panicked"
                 /\ IF num_moves >= old
                      THEN new = 2 * old /\ ret = ActionSave
                      ELSE new = old /\ ret = ActionNone
            /\ ~(pc = "decide" /\ idx = i) => new = old]_vars
HasLimitedReport == \E i \in 1..N : IsLimitedReport(plugins[i])

\* C16: with a Report that has a limit in the plugin list and one run call
\* per move, the process eventually terminates through process::exit,
\* after on-log and on-save of every plugin and the checkpoint.
C16_ExitsEventually ==
  HasLimitedReport =>
    <>(/\ pc = "exited"
       /\ Calls("checkpoint") # {}
       /\ \A p \in 1..N : Count("log", p) = 1 /\ Count("save", p) = 1)
\* C17: on the cheap path of run (moves + 1 < period) the only change of the
\* manager and the plugins is moves + 1: period and the plugins stay, no
\* hook and no checkpoint is called and run returns; on the consulting
\* path moves is 0 before the first hook and during every hook.
C17_CheapPathFrame ==
  /\ [](consulted /\ pc # "idle" => moves = 0)
  /\ [][pc = "idle" =>
          IF moves + 1 < period
            THEN /\ moves' = moves + 1
                 /\ period' = period
                 /\ plugins' = plugins
                 /\ trace' = <<>>
                 /\ ~consulted'
                 /\ pc' = "idle"
            ELSE /\ moves' = 0
                 /\ period' = period
                 /\ plugins' = plugins
                 /\ trace' = <<>>
                 /\ consulted']_vars

C17_Witness ==
  /\ pc = "idle"
  /\ ~consulted
  /\ moves = 2
  /\ period = 4
  /\ N = 2

\* C18: a new manager (period 1, moves 0) consults on its first run call
\* whatever periods the plugins prefer; the period they report then holds
\* up to the second consultation.
C18_FirstCallConsults ==
  /\ num_moves = 1 => consulted
  /\ (num_moves = 1 /\ pc # "idle") => period = 1
  /\ (num_moves > 1 /\ num_moves = calls + 1 /\ pc = "idle") =>
       ~consulted /\ calls < period
  /\ (num_moves > 1 /\ num_moves = calls + 1 /\ JustConsulted) =>
       calls = (IF period < 1 THEN 1 ELSE period)

C18_Witness ==
  /\ num_moves = 1
  /\ JustConsulted
  /\ N = 1
  /\ IsLimitedReport(plugins[1])
  /\ run_period(plugins[1]) = 3

\* C19: at every call of Save::run the move count is at most the threshold
\* read at the start, so next_output - moves does not underflow.
C19_NoUnderflow ==
  \A i \in 1..N :
    (plugins[i].kind = "Save" /\ pc = "decide" /\ idx = i) =>
       /\ num_moves <= plugins[i].next_output
       /\ ~Save_overflows(plugins[i], num_moves)
====
